---------------------------- MODULE Spec2Model ----------------------------
(***************************************************************************)
(* A model of the FastAPI tutorial service: the credential store, the      *)
(* password hasher, the token codec, the Authenticator, the Authorizer     *)
(* (get_current_user), the auth endpoints, the item repository and the     *)
(* cached item endpoints.                                                   *)
(*                                                                          *)
(* Every HTTP handler is one action.  A handler's only reads and writes of *)
(* shared state (the relational store, the cache) are modelled at the      *)
(* point where it commits, and `resp` holds the request and the response   *)
(* of the handler that ran last.                                            *)
(*                                                                          *)
(* Optional values (Python's None) are sequences of length 0 or 1.         *)
(* Time is counted in minutes.  The optional profile fields full_name and  *)
(* email are copied through unchanged by the code and are left out.        *)
(***************************************************************************)
EXTENDS Integers, Sequences, FiniteSets, TLC

VARIABLES
    users,       \* the users table, in id order
    tokens,      \* the access tokens the service has issued
    now,         \* the wall clock, in minutes
    items,       \* the items table, in id order
    cache,       \* the cache backend: key -> stored response
    resp,        \* the request and the response of the handler that ran last
    registered,  \* history: the payloads signup accepted
    issued,      \* history: every issued token with its sub, scopes, ttl and time
    txn,         \* the signup transaction that holds the store's write lock
    limiter,     \* the rate limiter's backend: key -> hits in the current window
    ws           \* the websocket echo session

vars == <<users, tokens, now, items, cache, resp, registered, issued, txn, limiter, ws>>

-----------------------------------------------------------------------------
(* Bounds of the model *)

MaxUsers == 2
MaxTokens == 1
MaxItems == 2
MaxSalt == 1
MaxAddr == 1
TickStep == 30
MaxNow == 60
MaxMsgs == 3

-----------------------------------------------------------------------------
(* Inputs *)

READ == "items:read"
WRITE == "items:write"

Usernames == {"hari", "bob"}
Passwords == {"haridx", "secret"}
SignupScopes == {<<READ>>, <<READ, WRITE>>}
FormScopes == {<<>>, <<WRITE>>}
Salts == 1..MaxSalt
Addrs == 1..MaxAddr

None == <<>>
Some(x) == <<x>>

Range(s) == {s[i] : i \in 1..Len(s)}

\* UserCreate (models/user.py): every payload drawn here passes validation.
\* Users sign up active, the model's default; Deactivate makes them inactive.
UserCreate == [username : Usernames, password : Passwords,
               is_active : {TRUE}, scopes : SignupScopes]

-----------------------------------------------------------------------------
(* Password Hasher: passlib's bcrypt context *)

\* A bcrypt hash carries its salt and the digest of (salt, password).
Digest(salt, password) == <<"digest", salt, password>>

get_password_hash(password, salt) ==
    [scheme |-> "bcrypt", salt |-> salt, digest |-> Digest(salt, password)]

verify_password(plain_password, hashed_password) ==
    hashed_password.digest = Digest(hashed_password.salt, plain_password)

-----------------------------------------------------------------------------
(* Token Codec: python-jose's jwt.encode / jwt.decode with HS256 *)

SECRET_KEY == "your-super-secret-key-that-is-long-and-random"
ACCESS_TOKEN_EXPIRE_MINUTES == 30

Sign(payload, key) == <<"HS256", key, payload>>

jwt_encode(payload, key) == [payload |-> payload, sig |-> Sign(payload, key)]

\* Mutant of jwt_decode: a token counts as expired at the minute of its exp.
jwt_decode_expired_at_exp(token, key, t) ==
    IF token.sig # Sign(token.payload, key)
      THEN [ok |-> FALSE, error |-> "JWTError", payload |-> token.payload]
    ELSE IF token.payload.exp <= t
      THEN [ok |-> FALSE, error |-> "ExpiredSignatureError", payload |-> token.payload]
    ELSE [ok |-> TRUE, error |-> "", payload |-> token.payload]

\* jwt.decode: the signature first, then the exp claim (expired when exp < now).
jwt_decode(token, key, t) ==
    IF token.sig # Sign(token.payload, key)
      THEN [ok |-> FALSE, error |-> "JWTError", payload |-> token.payload]
    ELSE IF token.payload.exp < t
      THEN [ok |-> FALSE, error |-> "ExpiredSignatureError", payload |-> token.payload]
    ELSE [ok |-> TRUE, error |-> "", payload |-> token.payload]

create_access_token(data, expires_minutes, t) ==
    LET expire == t + expires_minutes
        to_encode == [sub |-> data.sub, scopes |-> data.scopes, exp |-> expire]
    IN jwt_encode(to_encode, SECRET_KEY)


-----------------------------------------------------------------------------
(* Credential Store: the users table behind SQLUserRepo *)

\* A row of the users table; `users` is the table in id order.
UsersRow(id, payload, hashed) ==
    [id |-> id, username |-> payload.username, is_active |-> payload.is_active,
     scopes |-> payload.scopes, hashed_password |-> hashed]

\* SQLUserRepo._to_read
User_to_read(obj) ==
    [id |-> obj.id, username |-> obj.username, is_active |-> obj.is_active,
     scopes |-> obj.scopes]

\* SQLUserRepo._to_in_db: reads attributes only, so it accepts a row or a UserInDB.
User_to_in_db(obj) ==
    [username |-> obj.username, is_active |-> obj.is_active,
     scopes |-> obj.scopes, hashed_password |-> obj.hashed_password]

\* SQLUserRepo.get_by_username: the first row with that username, or None.
get_by_username(rows, username) ==
    LET hits == {i \in 1..Len(rows) : rows[i].username = username}
    IN IF hits = {} THEN None
       ELSE Some(User_to_in_db(rows[CHOOSE i \in hits : \A j \in hits : i <= j]))

\* Mutant of SQLUserRepo.create: the users table has no unique index on username.
SQLUserRepo_create_no_unique_index(rows, payload, salt) ==
    LET hashed == get_password_hash(payload.password, salt)
        obj == UsersRow(Len(rows) + 1, payload, hashed)
    IN [raised |-> "", rows |-> Append(rows, obj), value |-> Some(User_to_read(obj))]

\* SQLUserRepo.create: the flush of a row whose username is taken violates the
\* unique index and raises sqlalchemy's IntegrityError; the session is then
\* closed without a commit, so the table is as before.
SQLUserRepo_create(rows, payload, salt) ==
    LET hashed == get_password_hash(payload.password, salt)
        obj == UsersRow(Len(rows) + 1, payload, hashed)
    IN IF \E i \in 1..Len(rows) : rows[i].username = payload.username
         THEN [raised |-> "IntegrityError", rows |-> rows, value |-> None]
         ELSE [raised |-> "", rows |-> Append(rows, obj),
               value |-> Some(User_to_read(obj))]

-----------------------------------------------------------------------------
(* Authenticator *)

\* Mutant of authenticate_user: the password is not verified.
authenticate_user_no_verify(rows, username, password) ==
    get_by_username(rows, username)

authenticate_user(rows, username, password) ==
    LET user == get_by_username(rows, username)
    IN IF user = None THEN None
       ELSE IF ~verify_password(password, user[1].hashed_password) THEN None
       ELSE user

-----------------------------------------------------------------------------
(* HTTP responses *)

HTTPException(status_code, detail, headers) ==
    [status_code |-> status_code, detail |-> detail, headers |-> headers]

NoException == HTTPException(0, "", None)

NoAuth == [ok |-> TRUE, exc |-> NoException, user |-> None, gates |-> <<>>]

\* The request was answered before its Authorizer dependency was resolved.
NotReached == [ok |-> FALSE, exc |-> NoException, user |-> None, gates |-> <<>>]

\* A raised HTTPException: FastAPI's handler answers {"detail": ...} with the
\* exception's headers; errors.py replaces the handler for status 404.
HTTPExceptionResponse(exc, path) ==
    [status |-> exc.status_code, headers |-> exc.headers,
     body |-> IF exc.status_code = 404
                THEN [error |-> [code |-> "not_found",
                                 message |-> <<"Resource not found. ", exc.status_code, exc.detail>>],
                      path |-> path]
                ELSE [detail |-> exc.detail]]

\* Any other exception reaches errors.py's handler for 500.
InternalErrorResponse(exc, path) ==
    [status |-> 500, headers |-> None,
     body |-> [error |-> [code |-> "internal_server_error", message |-> exc],
               path |-> path]]

\* response_model: the returned object is validated against the model, which
\* fails when a required field is missing, and is serialised to the model's fields.
UserReadFields == {"id", "username", "is_active", "scopes"}

ResponseModel(fields, value, status, path) ==
    IF fields \subseteq DOMAIN value
      THEN [status |-> status, headers |-> None,
            body |-> [f \in fields |-> value[f]]]
      ELSE InternalErrorResponse("ResponseValidationError", path)

\* `stages` lists the stages of the request pipeline that ran, in order; it
\* is recorded for the paged listing of v2.
Response(op, req, auth, r) ==
    [op |-> op, req |-> req, auth |-> auth,
     status |-> r.status, headers |-> r.headers, body |-> r.body, stages |-> <<>>]

Staged(response, stages) == [response EXCEPT !.stages = stages]

NoResp == Response("none", <<>>, NoAuth, [status |-> 0, headers |-> None, body |-> <<>>])

-----------------------------------------------------------------------------
(* Authorizer: get_current_user *)

payload_get(payload, k) == IF k \in DOMAIN payload THEN Some(payload[k]) ELSE None

Raise(exc, gates) == [ok |-> FALSE, exc |-> exc, user |-> None, gates |-> gates]

Return(user, gates) == [ok |-> TRUE, exc |-> NoException, user |-> Some(user), gates |-> gates]

\* Mutants of get_current_user: the store lookup made before the scope gate;
\* a scope gate that any one of the required scopes passes; no liveness check.
get_current_user_lookup_first(security_scopes, authorization, rows, t) ==
    LET unauthorized_exception ==
            HTTPException(401, "Could not validate credentials.", Some(<<"Bearer">>))
        forbidden_exception ==
            HTTPException(403, "Insufficient scopes.", Some(<<"Bearer", security_scopes>>))
    IN IF authorization = None
         THEN Raise(HTTPException(401, "Not authenticated", Some(<<"Bearer">>)), <<"token">>)
       ELSE
         LET decoded == jwt_decode(authorization[1], SECRET_KEY, t)
             username == payload_get(decoded.payload, "sub")
             scopes_claim == payload_get(decoded.payload, "scopes")
             token_scopes == IF scopes_claim = None THEN <<>> ELSE scopes_claim[1]
         IN IF ~decoded.ok \/ username = None
              THEN Raise(unauthorized_exception, <<"token", "verify">>)
            ELSE
              LET user_in_db == get_by_username(rows, username[1])
              IN IF user_in_db = None \/ ~user_in_db[1].is_active
                   THEN Raise(unauthorized_exception, <<"token", "verify", "lookup">>)
                 ELSE IF /\ security_scopes # <<>>
                         /\ ~(\A i \in 1..Len(security_scopes) :
                                 security_scopes[i] \in Range(token_scopes))
                   THEN Raise(forbidden_exception, <<"token", "verify", "lookup", "scope">>)
                 ELSE Return(User_to_in_db(user_in_db[1]),
                             <<"token", "verify", "lookup", "scope">>)

get_current_user_any_scope(security_scopes, authorization, rows, t) ==
    LET unauthorized_exception ==
            HTTPException(401, "Could not validate credentials.", Some(<<"Bearer">>))
        forbidden_exception ==
            HTTPException(403, "Insufficient scopes.", Some(<<"Bearer", security_scopes>>))
    IN IF authorization = None
         THEN Raise(HTTPException(401, "Not authenticated", Some(<<"Bearer">>)), <<"token">>)
       ELSE
         LET decoded == jwt_decode(authorization[1], SECRET_KEY, t)
             username == payload_get(decoded.payload, "sub")
             scopes_claim == payload_get(decoded.payload, "scopes")
             token_scopes == IF scopes_claim = None THEN <<>> ELSE scopes_claim[1]
         IN IF ~decoded.ok \/ username = None
              THEN Raise(unauthorized_exception, <<"token", "verify">>)
            ELSE IF /\ security_scopes # <<>>
                    /\ ~(\E i \in 1..Len(security_scopes) :
                            security_scopes[i] \in Range(token_scopes))
              THEN Raise(forbidden_exception, <<"token", "verify", "scope">>)
            ELSE
              LET user_in_db == get_by_username(rows, username[1])
                  gates == <<"token", "verify", "scope", "lookup">>
              IN IF user_in_db = None \/ ~user_in_db[1].is_active
                   THEN Raise(unauthorized_exception, gates)
                   ELSE Return(User_to_in_db(user_in_db[1]), gates)

get_current_user_no_liveness(security_scopes, authorization, rows, t) ==
    LET unauthorized_exception ==
            HTTPException(401, "Could not validate credentials.", Some(<<"Bearer">>))
        forbidden_exception ==
            HTTPException(403, "Insufficient scopes.", Some(<<"Bearer", security_scopes>>))
    IN IF authorization = None
         THEN Raise(HTTPException(401, "Not authenticated", Some(<<"Bearer">>)), <<"token">>)
       ELSE
         LET decoded == jwt_decode(authorization[1], SECRET_KEY, t)
             username == payload_get(decoded.payload, "sub")
             scopes_claim == payload_get(decoded.payload, "scopes")
             token_scopes == IF scopes_claim = None THEN <<>> ELSE scopes_claim[1]
         IN IF ~decoded.ok \/ username = None
              THEN Raise(unauthorized_exception, <<"token", "verify">>)
            ELSE IF /\ security_scopes # <<>>
                    /\ ~(\A i \in 1..Len(security_scopes) :
                            security_scopes[i] \in Range(token_scopes))
              THEN Raise(forbidden_exception, <<"token", "verify", "scope">>)
            ELSE
              LET user_in_db == get_by_username(rows, username[1])
                  gates == <<"token", "verify", "scope", "lookup">>
              IN IF user_in_db = None
                   THEN Raise(unauthorized_exception, gates)
                   ELSE Return(User_to_in_db(user_in_db[1]), gates)

\* `gates` lists the gates the call evaluated, in order: "token" (the
\* oauth2_scheme dependency), "verify" (jwt.decode and the sub claim), "scope"
\* (the required scopes) and "lookup" (repo.get_by_username).
get_current_user(security_scopes, authorization, rows, t) ==
    LET unauthorized_exception ==
            HTTPException(401, "Could not validate credentials.", Some(<<"Bearer">>))
        forbidden_exception ==
            HTTPException(403, "Insufficient scopes.", Some(<<"Bearer", security_scopes>>))
    IN IF authorization = None
         THEN Raise(HTTPException(401, "Not authenticated", Some(<<"Bearer">>)), <<"token">>)
       ELSE
         LET decoded == jwt_decode(authorization[1], SECRET_KEY, t)
             username == payload_get(decoded.payload, "sub")
             scopes_claim == payload_get(decoded.payload, "scopes")
             token_scopes == IF scopes_claim = None THEN <<>> ELSE scopes_claim[1]
         IN IF ~decoded.ok \/ username = None
              THEN Raise(unauthorized_exception, <<"token", "verify">>)
            ELSE IF /\ security_scopes # <<>>
                    /\ ~(\A i \in 1..Len(security_scopes) :
                            security_scopes[i] \in Range(token_scopes))
              THEN Raise(forbidden_exception, <<"token", "verify", "scope">>)
            ELSE
              LET user_in_db == get_by_username(rows, username[1])
                  gates == <<"token", "verify", "scope", "lookup">>
              IN IF user_in_db = None \/ ~user_in_db[1].is_active
                   THEN Raise(unauthorized_exception, gates)
                   ELSE Return(User_to_in_db(user_in_db[1]), gates)

\* What a client can send as its bearer token: nothing, a token the service
\* issued, an issued token with its scopes claim rewritten, a token signed
\* with another key, or a token signed by an issuer that sets no sub claim.
Tampered(tok) == [tok EXCEPT !.payload.scopes = <<READ, WRITE>>]

ForgedToken(t) ==
    jwt_encode([sub |-> "hari", scopes |-> <<READ, WRITE>>, exp |-> t + ACCESS_TOKEN_EXPIRE_MINUTES],
               "not-the-secret-key")

NoSubToken(t) ==
    jwt_encode([scopes |-> <<READ, WRITE>>, exp |-> t + ACCESS_TOKEN_EXPIRE_MINUTES], SECRET_KEY)

BearerInputs ==
    {None} \cup {Some(tok) : tok \in tokens}
           \cup {Some(Tampered(tok)) : tok \in tokens}
           \cup {Some(ForgedToken(now)), Some(NoSubToken(now))}

-----------------------------------------------------------------------------
(* The auth endpoints (api/v1/auth.py) *)

\* POST /auth/signup
Signup(payload, salt) ==
    LET created == SQLUserRepo_create(users, payload, salt)
        r == IF created.raised = "ValueError"
               THEN HTTPExceptionResponse(
                        HTTPException(400, "User already exists.", None), "/auth/signup")
             ELSE IF created.raised # ""
               THEN InternalErrorResponse(created.raised, "/auth/signup")
             ELSE ResponseModel(UserReadFields, created.value[1], 201, "/auth/signup")
    IN /\ txn = None
       /\ Len(created.rows) <= MaxUsers
       /\ users' = created.rows
       /\ resp' = Response("signup", payload, NoAuth, r)
       /\ registered' = IF r.status = 201
                          THEN registered \cup {payload} ELSE registered
       /\ UNCHANGED <<tokens, now, items, cache, issued, txn, limiter, ws>>

\* POST /auth/signup in the steps that requests in flight at the same time
\* interleave.  The flush sends the INSERT inside the session's transaction,
\* which takes the store's write lock and checks the unique index; the commit
\* makes the row visible and releases the lock.
SignupFlush(payload, salt) ==
    LET created == SQLUserRepo_create(users, payload, salt)
    IN /\ txn = None
       /\ Len(created.rows) <= MaxUsers
       /\ IF created.raised # ""
            THEN /\ resp' = Response("signup", payload, NoAuth,
                                     InternalErrorResponse(created.raised, "/auth/signup"))
                 /\ UNCHANGED txn
            ELSE /\ txn' = Some([payload |-> payload, rows |-> created.rows,
                                  value |-> created.value[1]])
                 /\ resp' = NoResp
       /\ UNCHANGED <<users, tokens, now, items, cache, registered, issued, limiter, ws>>

\* A flush made while another request's transaction holds the write lock
\* waits for it; when the wait times out the driver raises OperationalError.
SignupLocked(payload) ==
    /\ txn # None
    /\ resp' = Response("signup", payload, NoAuth,
                        InternalErrorResponse("OperationalError", "/auth/signup"))
    /\ UNCHANGED <<users, tokens, now, items, cache, registered, issued, txn, limiter, ws>>

SignupCommit ==
    /\ txn # None
    /\ users' = txn[1].rows
    /\ txn' = None
    /\ resp' = Response("signup", txn[1].payload, NoAuth,
                        ResponseModel(UserReadFields, txn[1].value, 201, "/auth/signup"))
    /\ registered' = registered \cup {txn[1].payload}
    /\ UNCHANGED <<tokens, now, items, cache, issued, limiter, ws>>

\* POST /auth/token
LoginForm == [username : Usernames, password : Passwords, scopes : FormScopes]

login_for_access_token(form_data) ==
    LET user == authenticate_user(users, form_data.username, form_data.password)
    IN IF user = None
         THEN [issued |-> {}, claims |-> {},
               r |-> HTTPExceptionResponse(
                        HTTPException(401, "Incorrect username or password.", None),
                        "/auth/token")]
         ELSE
           LET requested_scopes ==
                   IF form_data.scopes # <<>> THEN form_data.scopes ELSE user[1].scopes
               access_token ==
                   create_access_token([sub |-> user[1].username, scopes |-> requested_scopes],
                                       ACCESS_TOKEN_EXPIRE_MINUTES, now)
           IN [issued |-> {access_token},
               claims |-> {[token |-> access_token, sub |-> user[1].username,
                            scopes |-> requested_scopes,
                            ttl |-> ACCESS_TOKEN_EXPIRE_MINUTES, at |-> now]},
               r |-> [status |-> 200, headers |-> None,
                      body |-> [access_token |-> access_token, token_type |-> "bearer"]]]

Login(form_data) ==
    LET out == login_for_access_token(form_data)
    IN /\ Cardinality(tokens \cup out.issued) <= MaxTokens
       /\ tokens' = tokens \cup out.issued
       /\ issued' = issued \cup out.claims
       /\ resp' = Response("login", form_data, NoAuth, out.r)
       /\ UNCHANGED <<users, now, items, cache, registered, txn, limiter, ws>>

\* GET /auth/me
ReadMe(authorization) ==
    LET auth == get_current_user(<<>>, authorization, users, now)
        r == IF ~auth.ok THEN HTTPExceptionResponse(auth.exc, "/auth/me")
             ELSE ResponseModel(UserReadFields, auth.user[1], 200, "/auth/me")
    IN /\ resp' = Response("read_me", [authorization |-> authorization, scopes |-> <<>>], auth, r)
       /\ UNCHANGED <<users, tokens, now, items, cache, registered, issued, txn, limiter, ws>>

-----------------------------------------------------------------------------
(* Item repository: the items table behind SQLItemRepo *)

\* Names are sequences of characters, so that a substring filter can be computed.
ItemCreate ==
    {[name |-> <<"M", "a", "t">>, description |-> None, price |-> 5,
      tags |-> <<>>, in_stock |-> TRUE],
     [name |-> <<"m", "u", "g">>, description |-> Some("350ml"), price |-> 7,
      tags |-> <<"kitchen">>, in_stock |-> FALSE]}

\* ItemUpdate payloads as model_dump(exclude_unset=True) gives them: the fields
\* set.  Every field of ItemUpdate is `T | None`: Some(v) is the value v, None
\* an explicit null.
ItemUpdate ==
    {[price |-> Some(10)], [name |-> Some(<<"m", "u", "g">>), in_stock |-> Some(FALSE)]}

\* Payloads that set a field to null; they pass ItemUpdate's validation.
ItemUpdateNulls ==
    {[name |-> None], [price |-> None], [tags |-> None], [in_stock |-> None]}

Queries == {None, Some(<<"M", "U">>)}

LowerChar(c) ==
    CASE c = "M" -> "m"
      [] c = "U" -> "u"
      [] OTHER -> c

Lower(s) == [i \in 1..Len(s) |-> LowerChar(s[i])]

Contains(sub, s) ==
    \E i \in 0..(Len(s) - Len(sub)) : SubSeq(s, i + 1, i + Len(sub)) = sub

Take(s, n) == SubSeq(s, 1, IF n < Len(s) THEN n ELSE Len(s))

Slice(s, start, end) ==
    SubSeq(s, start + 1, IF end < Len(s) THEN end ELSE Len(s))

RECURSIVE Filter(_, _)
Filter(s, q) ==
    IF s = <<>> THEN <<>>
    ELSE IF Contains(Lower(q), Lower(Head(s).name))
      THEN <<Head(s)>> \o Filter(Tail(s), q)
      ELSE Filter(Tail(s), q)

\* The items table.  name, price and in_stock are NOT NULL columns and hold
\* the value itself.  description is nullable and tags is a JSON column, which
\* stores Python's None as the JSON text null (a non-NULL value): both hold
\* None or Some(value).
NotNullColumns == {"name", "price", "in_stock"}

\* ItemRead's validation of a row: name of 2..50 characters, price >= 0 and
\* tags a list.
ItemRead_validates(obj) ==
    /\ Len(obj.name) >= 2 /\ Len(obj.name) <= 50
    /\ obj.price >= 0
    /\ obj.tags # None

\* SQLItemRepo._to_read, for a row that ItemRead accepts
Item_to_read(obj) ==
    [id |-> obj.id, name |-> obj.name, description |-> obj.description,
     price |-> obj.price, tags |-> obj.tags[1], in_stock |-> obj.in_stock,
     created_at |-> obj.created_at]

\* Mutant of SQLItemRepo.create: the store hands out the same id again.
SQLItemRepo_create_same_id(rows, payload, t) ==
    LET obj == [id |-> 1, name |-> payload.name,
                description |-> payload.description, price |-> payload.price,
                tags |-> Some(payload.tags), in_stock |-> payload.in_stock,
                created_at |-> t]
    IN [rows |-> Append(rows, obj), value |-> Item_to_read(obj)]

\* SQLItemRepo.create: the store assigns the id and created_at, and commits.
SQLItemRepo_create(rows, payload, t) ==
    LET obj == [id |-> Len(rows) + 1, name |-> payload.name,
                description |-> payload.description, price |-> payload.price,
                tags |-> Some(payload.tags), in_stock |-> payload.in_stock,
                created_at |-> t]
    IN [rows |-> Append(rows, obj), value |-> Item_to_read(obj)]

\* LIKE: in the pattern % stands for any run of characters and _ for any one
\* character; every other character stands for itself.
RECURSIVE Like(_, _)
Like(s, pattern) ==
    IF pattern = <<>> THEN s = <<>>
    ELSE IF Head(pattern) = "%"
      THEN Like(s, Tail(pattern)) \/ (s # <<>> /\ Like(Tail(s), pattern))
    ELSE IF s = <<>> THEN FALSE
    ELSE (Head(pattern) = "_" \/ Head(pattern) = Head(s)) /\ Like(Tail(s), Tail(pattern))

\* Column.ilike(pattern): lower(column) LIKE lower(pattern)
ilike(s, pattern) == Like(Lower(s), Lower(pattern))

RECURSIVE FilterILike(_, _)
FilterILike(rows, pattern) ==
    IF rows = <<>> THEN <<>>
    ELSE IF ilike(Head(rows).name, pattern)
      THEN <<Head(rows)>> \o FilterILike(Tail(rows), pattern)
      ELSE FilterILike(Tail(rows), pattern)

\* SQLItemRepo.list: ORDER BY id, name ILIKE %q% when q is given and not
\* empty, LIMIT limit; every row fetched goes through _to_read, which raises
\* when ItemRead rejects it.
DefaultLimit == 25

SQLItemRepo_list(rows, q, limit) ==
    LET matching == IF q # None /\ q[1] # <<>>
                      THEN FilterILike(rows, <<"%">> \o q[1] \o <<"%">>)
                      ELSE rows
        fetched == Take(matching, limit)
    IN IF \A i \in 1..Len(fetched) : ItemRead_validates(fetched[i])
         THEN [raised |-> "", value |-> [i \in 1..Len(fetched) |-> Item_to_read(fetched[i])]]
         ELSE [raised |-> "ValidationError", value |-> <<>>]

\* SQLItemRepo.get
SQLItemRepo_get(rows, item_id) ==
    IF item_id \notin 1..Len(rows) THEN [raised |-> "", value |-> None]
    ELSE IF ItemRead_validates(rows[item_id])
      THEN [raised |-> "", value |-> Some(Item_to_read(rows[item_id]))]
      ELSE [raised |-> "ValidationError", value |-> None]

\* Mutant of SQLItemRepo.update: the payload dumped without exclude_unset, so
\* that every field it does not set is written as None.
SQLItemRepo_update_unset_nulled(rows, item_id, changes) ==
    IF item_id \notin 1..Len(rows)
      THEN [raised |-> "", rows |-> rows, value |-> None]
      ELSE
        LET updatable == {"name", "description", "price", "tags", "in_stock"}
            data == [f \in updatable |-> IF f \in DOMAIN changes THEN changes[f] ELSE None]
            obj == [f \in DOMAIN rows[item_id] |->
                       IF f \notin DOMAIN data THEN rows[item_id][f]
                       ELSE IF f \in NotNullColumns THEN data[f][1]
                       ELSE data[f]]
        IN IF \E f \in DOMAIN data \cap NotNullColumns : data[f] = None
             THEN [raised |-> "IntegrityError", rows |-> rows, value |-> None]
           ELSE IF ~ItemRead_validates(obj)
             THEN [raised |-> "ValidationError", rows |-> [rows EXCEPT ![item_id] = obj],
                   value |-> None]
             ELSE [raised |-> "", rows |-> [rows EXCEPT ![item_id] = obj],
                   value |-> Some(Item_to_read(obj))]

\* SQLItemRepo.update: setattr of every field the payload sets; the flush
\* raises IntegrityError for a null in a NOT NULL column, and nothing is
\* written; otherwise the row is committed, and then read through _to_read.
SQLItemRepo_update(rows, item_id, changes) ==
    IF item_id \notin 1..Len(rows)
      THEN [raised |-> "", rows |-> rows, value |-> None]
      ELSE
        LET data == changes
            obj == [f \in DOMAIN rows[item_id] |->
                       IF f \notin DOMAIN data THEN rows[item_id][f]
                       ELSE IF f \in NotNullColumns THEN data[f][1]
                       ELSE data[f]]
        IN IF \E f \in DOMAIN data \cap NotNullColumns : data[f] = None
             THEN [raised |-> "IntegrityError", rows |-> rows, value |-> None]
           ELSE IF ~ItemRead_validates(obj)
             THEN [raised |-> "ValidationError", rows |-> [rows EXCEPT ![item_id] = obj],
                   value |-> None]
             ELSE [raised |-> "", rows |-> [rows EXCEPT ![item_id] = obj],
                   value |-> Some(Item_to_read(obj))]

-----------------------------------------------------------------------------
(* Cache: fastapi-cache's @cache decorator and FastAPICache.clear *)

EmptyCache == [k \in {} |-> <<>>]

\* The default key builder hashes the function's name with the repr of its
\* arguments.  Among them is the repository object injected for the request,
\* whose repr holds its memory address: `addr` is that address.
CacheKey(func, args, addr) == [func |-> func, args |-> args, repo |-> addr]

\* @cache on a GET endpoint: a stored response is returned as it is; otherwise
\* the endpoint runs and its response is stored under the key.
Cached(c, key, computed) ==
    IF key \in DOMAIN c
      THEN [cache |-> c, value |-> c[key], hit |-> TRUE]
      ELSE [cache |-> [k \in DOMAIN c \cup {key} |-> IF k = key THEN computed ELSE c[k]],
            value |-> computed, hit |-> FALSE]

\* FastAPICache.clear(): every key of the namespace is deleted.
FastAPICache_clear(c) == EmptyCache

OkResponse(status, body) == [status |-> status, headers |-> None, body |-> body]

NotFound(path) ==
    HTTPExceptionResponse(HTTPException(404, "Item not found.", None), path)

-----------------------------------------------------------------------------
(* The item endpoints of v1 (api/v1/items.py) *)

\* POST /api/v1/store/items
V1CreateItem(payload) ==
    LET created == SQLItemRepo_create(items, payload, now)
    IN /\ Len(items) < MaxItems
       /\ items' = created.rows
       /\ resp' = Response("v1_create_item", payload, NoAuth, OkResponse(201, created.value))
       /\ UNCHANGED <<users, tokens, now, cache, registered, issued, txn, limiter, ws>>

\* GET /api/v1/store/items/{item_id}
V1ReadItem(item_id) ==
    LET item == SQLItemRepo_get(items, item_id)
        r == IF item.raised # ""
               THEN InternalErrorResponse(item.raised, "/api/v1/store/items")
             ELSE IF item.value = None THEN NotFound("/api/v1/store/items")
             ELSE OkResponse(200, item.value[1])
    IN /\ resp' = Response("v1_read_item", [item_id |-> item_id], NoAuth, r)
       /\ UNCHANGED <<users, tokens, now, items, cache, registered, issued, txn, limiter, ws>>

\* PATCH /api/v1/store/items/{item_id}
V1UpdateItem(item_id, changes) ==
    LET updated == SQLItemRepo_update(items, item_id, changes)
        r == IF updated.raised # ""
               THEN InternalErrorResponse(updated.raised, "/api/v1/store/items")
             ELSE IF updated.value = None THEN NotFound("/api/v1/store/items")
             ELSE OkResponse(200, updated.value[1])
    IN /\ items' = updated.rows
       /\ resp' = Response("v1_update_item", [item_id |-> item_id, changes |-> changes],
                           NoAuth, r)
       /\ UNCHANGED <<users, tokens, now, cache, registered, issued, txn, limiter, ws>>

-----------------------------------------------------------------------------
(* The item endpoints of v2 (api/v2/items.py) *)

\* get_pagination
max_page_size == 50

get_pagination(page, page_size) ==
    LET chosen_size == IF page_size # None THEN page_size[1] ELSE 10
    IN [page |-> page,
        page_size |-> IF chosen_size < max_page_size THEN chosen_size ELSE max_page_size]

\* limit_ip(times=3, seconds=60): fastapi-limiter's RateLimiter dependency.
\* The backend counts the hits of a key (client address and path) in the
\* current window; a hit beyond `times` is refused and is not counted.
limit_ip_times == 3

EmptyLimiter == [k \in {} |-> 0]

RateLimiter(l, key, times) ==
    LET current == IF key \in DOMAIN l THEN l[key] ELSE 0
    IN IF current + 1 > times
         THEN [allowed |-> FALSE, limiter |-> l]
         ELSE [allowed |-> TRUE,
               limiter |-> [k \in DOMAIN l \cup {key} |-> IF k = key THEN current + 1 ELSE l[k]]]

TooManyRequests(path) ==
    HTTPExceptionResponse(HTTPException(429, "Too Many Requests", Some(<<"Retry-After">>)), path)

\* Mutant of V2ListItemsPaged: the cache is consulted before the Authorizer.
V2ListItemsPaged_cache_first(authorization, page, page_size, addr) ==
    LET path == "/api/v2/store/items/paged"
        limited == RateLimiter(limiter, path, limit_ip_times)
        pagination == get_pagination(page, page_size)
        auth == get_current_user(<<WRITE, READ>>, authorization, users, now)
        listed == SQLItemRepo_list(items, None, pagination.page_size)
        start == (pagination.page - 1) * pagination.page_size
        end == start + pagination.page_size
        key == CacheKey("list_items_paged", <<pagination>>, addr)
        out == Cached(cache, key, Slice(listed.value, start, end))
        req == [authorization |-> authorization, scopes |-> <<WRITE, READ>>,
                page |-> page, page_size |-> page_size]
    IN IF ~limited.allowed
         THEN /\ resp' = Staged(Response("v2_list_items_paged", req, NotReached,
                                         TooManyRequests(path)), <<"limiter">>)
              /\ UNCHANGED <<users, tokens, now, items, cache, registered, issued, txn, limiter, ws>>
       ELSE IF out.hit
         THEN /\ limiter' = limited.limiter
              /\ resp' = Staged(Response("v2_list_items_paged", req, NotReached,
                                         OkResponse(200, out.value)),
                                <<"limiter", "cache_read">>)
              /\ UNCHANGED <<users, tokens, now, items, cache, registered, issued, txn, ws>>
       ELSE IF ~auth.ok
         THEN /\ limiter' = limited.limiter
              /\ resp' = Staged(Response("v2_list_items_paged", req, auth,
                                         HTTPExceptionResponse(auth.exc, path)),
                                <<"limiter", "cache_read", "authorizer">>)
              /\ UNCHANGED <<users, tokens, now, items, cache, registered, issued, txn, ws>>
       ELSE IF listed.raised # ""
         THEN /\ limiter' = limited.limiter
              /\ resp' = Staged(Response("v2_list_items_paged", req, auth,
                                         InternalErrorResponse(listed.raised, path)),
                                <<"limiter", "cache_read", "authorizer", "repository">>)
              /\ UNCHANGED <<users, tokens, now, items, cache, registered, issued, txn, ws>>
         ELSE /\ limiter' = limited.limiter
              /\ cache' = out.cache
              /\ resp' = Staged(Response("v2_list_items_paged", req, auth,
                                         OkResponse(200, out.value)),
                                <<"limiter", "cache_read", "authorizer", "repository",
                                  "response", "cache_write">>)
              /\ UNCHANGED <<users, tokens, now, items, registered, issued, txn, ws>>

\* GET /api/v1/store/items/paged
V1ListItemsPaged(page, page_size) ==
    LET pagination == get_pagination(page, page_size)
        listed == SQLItemRepo_list(items, None, DefaultLimit)
        start == (pagination.page - 1) * pagination.page_size
        end == start + pagination.page_size
    IN /\ resp' = Response("v1_list_items_paged", [page |-> page, page_size |-> page_size],
                           NoAuth,
                           IF listed.raised # ""
                             THEN InternalErrorResponse(listed.raised, "/api/v1/store/items/paged")
                             ELSE OkResponse(200, Slice(listed.value, start, end)))
       /\ UNCHANGED <<users, tokens, now, items, cache, registered, issued, txn, limiter, ws>>

\* GET /api/v1/store/items
V1ListItems(q, limit) ==
    LET listed == SQLItemRepo_list(items, None, DefaultLimit)
        filtered == IF q # None /\ q[1] # <<>> THEN Filter(listed.value, q[1])
                    ELSE listed.value
    IN /\ resp' = Response("v1_list_items", [q |-> q, limit |-> limit], NoAuth,
                           IF listed.raised # ""
                             THEN InternalErrorResponse(listed.raised, "/api/v1/store/items")
                             ELSE OkResponse(200, Take(filtered, limit)))
       /\ UNCHANGED <<users, tokens, now, items, cache, registered, issued, txn, limiter, ws>>

\* GET /api/v2/store/items/paged.  FastAPI resolves the route's dependencies
\* first (the rate limiter), then the parameters' (get_pagination,
\* get_current_user), and only then calls the endpoint, which is the @cache
\* wrapper: on a hit it returns the stored response; on a miss it calls
\* list_items_paged, which reads the repository and returns the response, and
\* stores what it returned.
V2ListItemsPaged(authorization, page, page_size, addr) ==
    LET path == "/api/v2/store/items/paged"
        limited == RateLimiter(limiter, path, limit_ip_times)
        pagination == get_pagination(page, page_size)
        auth == get_current_user(<<WRITE, READ>>, authorization, users, now)
        listed == SQLItemRepo_list(items, None, pagination.page_size)
        start == (pagination.page - 1) * pagination.page_size
        end == start + pagination.page_size
        key == CacheKey("list_items_paged", <<pagination, auth.user>>, addr)
        out == Cached(cache, key, Slice(listed.value, start, end))
        req == [authorization |-> authorization, scopes |-> <<WRITE, READ>>,
                page |-> page, page_size |-> page_size]
    IN IF ~limited.allowed
         THEN /\ resp' = Staged(Response("v2_list_items_paged", req, NotReached,
                                         TooManyRequests(path)), <<"limiter">>)
              /\ UNCHANGED <<users, tokens, now, items, cache, registered, issued, txn, limiter, ws>>
       ELSE IF ~auth.ok
         THEN /\ limiter' = limited.limiter
              /\ resp' = Staged(Response("v2_list_items_paged", req, auth,
                                         HTTPExceptionResponse(auth.exc, path)),
                                <<"limiter", "authorizer">>)
              /\ UNCHANGED <<users, tokens, now, items, cache, registered, issued, txn, ws>>
       ELSE IF ~out.hit /\ listed.raised # ""
         THEN /\ limiter' = limited.limiter
              /\ resp' = Staged(Response("v2_list_items_paged", req, auth,
                                         InternalErrorResponse(listed.raised, path)),
                                <<"limiter", "authorizer", "cache_read", "repository">>)
              /\ UNCHANGED <<users, tokens, now, items, cache, registered, issued, txn, ws>>
         ELSE /\ limiter' = limited.limiter
              /\ cache' = out.cache
              /\ resp' = Staged(Response("v2_list_items_paged", req, auth,
                                         OkResponse(200, out.value)),
                                IF out.hit
                                  THEN <<"limiter", "authorizer", "cache_read">>
                                  ELSE <<"limiter", "authorizer", "cache_read", "repository",
                                         "response", "cache_write">>)
              /\ UNCHANGED <<users, tokens, now, items, registered, issued, txn, ws>>

\* POST /api/v2/store/items
V2CreateItem(authorization, payload) ==
    LET auth == get_current_user(<<WRITE>>, authorization, users, now)
        created == SQLItemRepo_create(items, payload, now)
        req == [authorization |-> authorization, scopes |-> <<WRITE>>, payload |-> payload]
    IN IF ~auth.ok
         THEN /\ resp' = Response("v2_create_item", req, auth,
                                  HTTPExceptionResponse(auth.exc, "/api/v2/store/items"))
              /\ UNCHANGED <<users, tokens, now, items, cache, registered, issued, txn, limiter, ws>>
         ELSE /\ Len(items) < MaxItems
              /\ items' = created.rows
              /\ cache' = FastAPICache_clear(cache)
              /\ resp' = Response("v2_create_item", req, auth, OkResponse(201, created.value))
              /\ UNCHANGED <<users, tokens, now, registered, issued, txn, limiter, ws>>

\* POST /api/v2/store/items/bulk
RECURSIVE create_items_bulk(_, _, _)
create_items_bulk(rows, payloads, t) ==
    IF payloads = <<>> THEN [rows |-> rows, created_items |-> <<>>]
    ELSE LET created == SQLItemRepo_create(rows, Head(payloads), t)
             rest == create_items_bulk(created.rows, Tail(payloads), t)
         IN [rows |-> rest.rows, created_items |-> <<created.value>> \o rest.created_items]

V2CreateItemsBulk(payloads) ==
    LET out == create_items_bulk(items, payloads, now)
    IN /\ Len(out.rows) <= MaxItems
       /\ items' = out.rows
       /\ resp' = Response("v2_create_items_bulk", payloads, NoAuth,
                           OkResponse(201, out.created_items))
       /\ UNCHANGED <<users, tokens, now, cache, registered, issued, txn, limiter, ws>>

\* GET /api/v2/store/items
V2ListItems(q, limit, addr) ==
    LET path == "/api/v2/store/items"
        limited == RateLimiter(limiter, path, limit_ip_times)
        listed == SQLItemRepo_list(items, None, DefaultLimit)
        filtered == IF q # None THEN Filter(listed.value, q[1]) ELSE listed.value
        key == CacheKey("list_items", <<q, limit>>, addr)
        out == Cached(cache, key, Take(filtered, limit))
        req == [q |-> q, limit |-> limit]
    IN IF ~limited.allowed
         THEN /\ resp' = Response("v2_list_items", req, NoAuth, TooManyRequests(path))
              /\ UNCHANGED <<users, tokens, now, items, cache, registered, issued, txn, limiter, ws>>
       ELSE IF ~out.hit /\ listed.raised # ""
         THEN /\ limiter' = limited.limiter
              /\ resp' = Response("v2_list_items", req, NoAuth,
                                  InternalErrorResponse(listed.raised, path))
              /\ UNCHANGED <<users, tokens, now, items, cache, registered, issued, txn, ws>>
         ELSE /\ limiter' = limited.limiter
              /\ cache' = out.cache
              /\ resp' = Response("v2_list_items", req, NoAuth, OkResponse(200, out.value))
              /\ UNCHANGED <<users, tokens, now, items, registered, issued, txn, ws>>

\* PATCH /api/v2/store/items/{item_id}
V2UpdateItem(item_id, changes) ==
    LET item == SQLItemRepo_get(items, item_id)
        updated == SQLItemRepo_update(items, item_id, changes)
        req == [item_id |-> item_id, changes |-> changes]
    IN IF item.raised # ""
         THEN /\ resp' = Response("v2_update_item", req, NoAuth,
                                  InternalErrorResponse(item.raised, "/api/v2/store/items"))
              /\ UNCHANGED <<users, tokens, now, items, cache, registered, issued, txn, limiter, ws>>
       ELSE IF item.value = None
         THEN /\ resp' = Response("v2_update_item", req, NoAuth, NotFound("/api/v2/store/items"))
              /\ UNCHANGED <<users, tokens, now, items, cache, registered, issued, txn, limiter, ws>>
       ELSE IF updated.raised # ""
         THEN /\ items' = updated.rows
              /\ resp' = Response("v2_update_item", req, NoAuth,
                                  InternalErrorResponse(updated.raised, "/api/v2/store/items"))
              /\ UNCHANGED <<users, tokens, now, cache, registered, issued, txn, limiter, ws>>
         ELSE /\ items' = updated.rows
              /\ cache' = FastAPICache_clear(cache)
              /\ resp' = Response("v2_update_item", req, NoAuth, OkResponse(200, updated.value[1]))
              /\ UNCHANGED <<users, tokens, now, registered, issued, txn, limiter, ws>>

-----------------------------------------------------------------------------
(* The websocket echo endpoint (api/v2/web_sockets.py) *)

\* The session of one client.  `state` is the connection as the client left
\* it ("none", "open", "closed"), `pc` the handler's position ("none",
\* "receive", "send", "done", "failed"), `inbox` the messages the client sent
\* that the handler has not received yet, `received` and `sent` the messages
\* receive_text returned and send_text delivered, `closed_at` the number of
\* messages delivered when the client disconnected, `late` the calls the
\* handler made after that, and `raised` the exception that left the handler.
NoSession == [state |-> "none", pc |-> "none", inbox |-> <<>>, msg |-> None,
              received |-> <<>>, sent |-> <<>>, closed_at |-> 0, late |-> <<>>,
              raised |-> ""]

Messages == {"ping", "Mat"}

\* What send_text raises when the client is gone is the ASGI server's choice:
\* Starlette turns an OSError of the server into WebSocketDisconnect, and any
\* other error of the server reaches the handler as it is.
SendFailures == {"WebSocketDisconnect", "RuntimeError"}

\* A client connects: ws.accept()
WsConnect ==
    /\ ws.state = "none"
    /\ ws' = [NoSession EXCEPT !.state = "open", !.pc = "receive"]
    /\ UNCHANGED <<users, tokens, now, items, cache, resp, registered, issued, txn, limiter>>

\* The client sends a text message.
WsClientSend(m) ==
    /\ ws.state = "open"
    /\ Len(ws.received) + Len(ws.inbox) < MaxMsgs
    /\ ws' = [ws EXCEPT !.inbox = Append(@, m)]
    /\ UNCHANGED <<users, tokens, now, items, cache, resp, registered, issued, txn, limiter>>

\* The client disconnects.
WsClientDisconnect ==
    /\ ws.state = "open"
    /\ ws' = [ws EXCEPT !.state = "closed", !.closed_at = Len(ws.sent)]
    /\ UNCHANGED <<users, tokens, now, items, cache, resp, registered, issued, txn, limiter>>

\* msg = await ws.receive_text(): the next message the client sent, in the
\* order sent; when there is none and the client has disconnected, it raises
\* WebSocketDisconnect, which the handler catches, and the handler returns.
WsReceive ==
    /\ ws.pc = "receive"
    /\ IF ws.inbox # <<>>
         THEN ws' = [ws EXCEPT !.msg = Some(Head(ws.inbox)), !.inbox = Tail(@),
                               !.received = Append(@, Head(ws.inbox)), !.pc = "send",
                               !.late = IF ws.state = "closed"
                                          THEN Append(@, "receive_text") ELSE @]
         ELSE /\ ws.state = "closed"
              /\ ws' = [ws EXCEPT !.pc = "done",
                                   !.late = Append(@, "receive_text")]
    /\ UNCHANGED <<users, tokens, now, items, cache, resp, registered, issued, txn, limiter>>

\* await ws.send_text(f"echo: {msg}")
WsSend(failure) ==
    /\ ws.pc = "send"
    /\ IF ws.state = "open"
         THEN ws' = [ws EXCEPT !.sent = Append(@, <<"echo: ", ws.msg[1]>>),
                               !.msg = None, !.pc = "receive"]
         ELSE ws' = [ws EXCEPT !.late = Append(@, "send_text"),
                               !.pc = IF failure = "WebSocketDisconnect"
                                        THEN "done" ELSE "failed",
                               !.raised = IF failure = "WebSocketDisconnect"
                                            THEN "" ELSE failure]
    /\ UNCHANGED <<users, tokens, now, items, cache, resp, registered, issued, txn, limiter>>

\* The session is over and the next client may connect.
WsEnd ==
    /\ ws.pc \in {"done", "failed"}
    /\ ws' = NoSession
    /\ UNCHANGED <<users, tokens, now, items, cache, resp, registered, issued, txn, limiter>>

-----------------------------------------------------------------------------
(* The environment *)

\* Time passes.  A cached response lives 60 seconds and a window of the rate
\* limiter lasts 60 seconds, both less than one step.
Tick ==
    /\ now + TickStep <= MaxNow
    /\ now' = now + TickStep
    /\ cache' = EmptyCache
    /\ limiter' = EmptyLimiter
    /\ resp' = NoResp
    /\ UNCHANGED <<users, tokens, items, registered, issued, txn, ws>>

\* An administrator clears a user's is_active column in the users table.
Deactivate(i) ==
    /\ txn = None
    /\ users[i].is_active
    /\ users' = [users EXCEPT ![i].is_active = FALSE]
    /\ resp' = NoResp
    /\ UNCHANGED <<tokens, now, items, cache, registered, issued, txn, limiter, ws>>

-----------------------------------------------------------------------------
(* Specification *)

Init ==
    /\ users = <<>>
    /\ tokens = {}
    /\ now = 0
    /\ items = <<>>
    /\ cache = EmptyCache
    /\ resp = NoResp
    /\ registered = {}
    /\ issued = {}
    /\ txn = None
    /\ limiter = EmptyLimiter
    /\ ws = NoSession

ItemIds == 1..MaxItems
BulkPayloads == {<<p>> : p \in ItemCreate} \cup {<<p, q>> : p \in ItemCreate, q \in ItemCreate}

\* The auth endpoints with every input.
Next ==
    \/ \E payload \in UserCreate, salt \in Salts : Signup(payload, salt)
    \/ \E form_data \in LoginForm : Login(form_data)
    \/ \E authorization \in BearerInputs : ReadMe(authorization)
    \/ \E i \in 1..Len(users) : Deactivate(i)
    \/ Tick

Spec == Init /\ [][Next]_vars

\* Signups in flight at the same time, among token exchanges and deactivations.
SignupNext ==
    \/ \E payload \in UserCreate, salt \in Salts : SignupFlush(payload, salt)
    \/ \E payload \in UserCreate : SignupLocked(payload)
    \/ SignupCommit
    \/ \E form_data \in LoginForm : Login(form_data)
    \/ \E i \in 1..Len(users) : Deactivate(i)
    \/ Tick

SignupSpec == Init /\ [][SignupNext]_vars

\* The Authorizer behind the endpoints that use it, with and without required
\* scopes: one user who signs up with either scope list, every bearer token
\* a client can present, and the rate-limited, cached paged listing of the
\* items that anonymous clients create.
Holders == {p \in UserCreate : p.username = "hari" /\ p.password = "haridx"}
HolderForms == {f \in LoginForm : f.username = "hari" /\ f.password = "haridx"}

GateNext ==
    \/ \E payload \in Holders, salt \in Salts : Signup(payload, salt)
    \/ \E form_data \in HolderForms : Login(form_data)
    \/ \E authorization \in BearerInputs : ReadMe(authorization)
    \/ \E authorization \in BearerInputs, addr \in Addrs :
          V2ListItemsPaged(authorization, 1, None, addr)
    \/ \E payload \in ItemCreate : V1CreateItem(payload)
    \/ \E i \in 1..Len(users) : Deactivate(i)
    \/ Tick

GateSpec == Init /\ [][GateNext]_vars

\* The item endpoints within one lifetime of a cached response, used by
\* anonymous clients and by one user who holds both scopes.
Writer == [username |-> "hari", password |-> "haridx", is_active |-> TRUE,
           scopes |-> <<READ, WRITE>>]

WriterForm == [username |-> "hari", password |-> "haridx", scopes |-> <<>>]

StoreBearers == {None} \cup {Some(tok) : tok \in tokens}

StoreNext ==
    \/ \E salt \in Salts : Signup(Writer, salt)
    \/ Login(WriterForm)
    \/ \E payload \in ItemCreate : V1CreateItem(payload)
    \/ \E item_id \in ItemIds, changes \in ItemUpdate : V1UpdateItem(item_id, changes)
    \/ \E authorization \in StoreBearers, payload \in ItemCreate :
          V2CreateItem(authorization, payload)
    \/ \E payloads \in BulkPayloads : V2CreateItemsBulk(payloads)
    \/ \E q \in Queries, addr \in Addrs : V2ListItems(q, DefaultLimit, addr)
    \/ \E item_id \in ItemIds, changes \in ItemUpdate : V2UpdateItem(item_id, changes)

StoreSpec == Init /\ [][StoreNext]_vars

\* The Token Codec on its own: create_access_token for every subject, scope
\* list and lifetime, jwt.decode of the issued tokens as time passes, and the
\* Authorizer given an issued token.
TokenScopes == {<<>>, <<READ>>, <<READ, WRITE>>}
Lifetimes == {0, 15, ACCESS_TOKEN_EXPIRE_MINUTES}

CodecIssue(sub, scopes, expires_minutes) ==
    LET access_token == create_access_token([sub |-> sub, scopes |-> scopes],
                                            expires_minutes, now)
    IN /\ Cardinality(tokens \cup {access_token}) <= MaxTokens
       /\ tokens' = tokens \cup {access_token}
       /\ issued' = issued \cup {[token |-> access_token, sub |-> sub, scopes |-> scopes,
                                  ttl |-> expires_minutes, at |-> now]}
       /\ resp' = Response("create_access_token",
                           [sub |-> sub, scopes |-> scopes, ttl |-> expires_minutes],
                           NoAuth, OkResponse(0, access_token))
       /\ UNCHANGED <<users, now, items, cache, registered, txn, limiter, ws>>

CodecVerify(token) ==
    /\ resp' = Response("jwt_decode", token, NoAuth,
                        OkResponse(0, jwt_decode(token, SECRET_KEY, now)))
    /\ UNCHANGED <<users, tokens, now, items, cache, registered, issued, txn, limiter, ws>>

CodecNext ==
    \/ \E sub \in Usernames, scopes \in TokenScopes, ttl \in Lifetimes :
          CodecIssue(sub, scopes, ttl)
    \/ \E token \in tokens : CodecVerify(token)
    \/ \E token \in tokens : ReadMe(Some(token))
    \/ Tick

CodecSpec == Init /\ [][CodecNext]_vars

\* The item repository on its own: SQLItemRepo's create, update and list with
\* every payload, id, query and limit, as time passes.
RepoUpdates == ItemUpdate \cup {[description |-> None], [tags |-> Some(<<"sale">>)]}
RepoQueries == {None, Some(<<>>), Some(<<"M", "U">>), Some(<<"m", "_", "g">>)}
RepoLimits == {1, DefaultLimit}

RepoCreate(payload) ==
    LET created == SQLItemRepo_create(items, payload, now)
    IN /\ Len(items) < MaxItems
       /\ items' = created.rows
       /\ resp' = Response("repo_create", payload, NoAuth, OkResponse(0, created.value))
       /\ UNCHANGED <<users, tokens, now, cache, registered, issued, txn, limiter, ws>>

RepoUpdate(item_id, changes) ==
    LET updated == SQLItemRepo_update(items, item_id, changes)
    IN /\ items' = updated.rows
       /\ resp' = Response("repo_update", [item_id |-> item_id, changes |-> changes],
                           NoAuth, OkResponse(0, updated.value))
       /\ UNCHANGED <<users, tokens, now, cache, registered, issued, txn, limiter, ws>>

RepoList(q, limit) ==
    /\ resp' = Response("repo_list", [q |-> q, limit |-> limit], NoAuth,
                        OkResponse(0, SQLItemRepo_list(items, q, limit).value))
    /\ UNCHANGED <<users, tokens, now, items, cache, registered, issued, txn, limiter, ws>>

RepoNext ==
    \/ \E payload \in ItemCreate : RepoCreate(payload)
    \/ \E item_id \in 1..(MaxItems + 1), changes \in RepoUpdates : RepoUpdate(item_id, changes)
    \/ \E q \in RepoQueries, limit \in RepoLimits : RepoList(q, limit)
    \/ Tick

RepoSpec == Init /\ [][RepoNext]_vars

\* Creates and partial updates, payloads that set a field to null included,
\* followed by reads of the store.
ConstraintNext ==
    \/ \E payload \in ItemCreate : V1CreateItem(payload)
    \/ \E item_id \in ItemIds, changes \in ItemUpdate \cup ItemUpdateNulls :
          V1UpdateItem(item_id, changes)
    \/ \E item_id \in ItemIds : V1ReadItem(item_id)
    \/ \E q \in Queries : V1ListItems(q, DefaultLimit)

ConstraintSpec == Init /\ [][ConstraintNext]_vars

\* The write endpoints of v2 with every payload, payloads that set a field to
\* null included.
WriteNext ==
    \/ \E salt \in Salts : Signup(Writer, salt)
    \/ Login(WriterForm)
    \/ \E authorization \in StoreBearers, payload \in ItemCreate :
          V2CreateItem(authorization, payload)
    \/ \E payloads \in BulkPayloads : V2CreateItemsBulk(payloads)
    \/ \E item_id \in ItemIds, changes \in ItemUpdate \cup ItemUpdateNulls :
          V2UpdateItem(item_id, changes)

WriteSpec == Init /\ [][WriteNext]_vars

\* The read endpoints over stores of every size around the repository's
\* default limit: up to DefaultLimit items named "Mat", then items named "mug",
\* created in that order.
Stock(n) ==
    LET mat == CHOOSE payload \in ItemCreate : payload.name = <<"M", "a", "t">>
        mug == CHOOSE payload \in ItemCreate : payload.name = <<"m", "u", "g">>
    IN create_items_bulk(<<>>, [i \in 1..n |-> IF i <= DefaultLimit THEN mat ELSE mug], 0).rows

StockSizes == {0, MaxItems, DefaultLimit + 1, DefaultLimit + MaxItems}

ListInit ==
    /\ items \in {Stock(n) : n \in StockSizes}
    /\ users = <<>>
    /\ tokens = {}
    /\ now = 0
    /\ cache = EmptyCache
    /\ resp = NoResp
    /\ registered = {}
    /\ issued = {}
    /\ txn = None
    /\ limiter = EmptyLimiter
    /\ ws = NoSession

Pages == 1..MaxItems
PageSizes == {None, Some(1), Some(2 * max_page_size)}
Limits == {1, DefaultLimit, 4 * DefaultLimit}

PagedNext ==
    \/ \E salt \in Salts : Signup(Writer, salt)
    \/ Login(WriterForm)
    \/ \E page \in Pages, page_size \in PageSizes : V1ListItemsPaged(page, page_size)
    \/ \E tok \in tokens, page \in Pages, page_size \in PageSizes, addr \in Addrs :
          V2ListItemsPaged(Some(tok), page, page_size, addr)

PagedSpec == ListInit /\ [][PagedNext]_vars

ListNext ==
    \/ \E q \in Queries, limit \in Limits : V1ListItems(q, limit)
    \/ \E q \in Queries, limit \in Limits, addr \in Addrs : V2ListItems(q, limit, addr)

ListSpec == ListInit /\ [][ListNext]_vars

\* The websocket echo session: one client at a time, which sends messages and
\* disconnects at any point of the handler's loop.
WsNext ==
    \/ WsConnect
    \/ \E m \in Messages : WsClientSend(m)
    \/ WsClientDisconnect
    \/ WsReceive
    \/ \E failure \in SendFailures : WsSend(failure)
    \/ WsEnd

WsSpec == Init /\ [][WsNext]_vars

-----------------------------------------------------------------------------
(* What the claims speak of *)

\* The handler that ran last resolved the Authorizer dependency.
AuthorizerRan ==
    /\ resp.op \in {"read_me", "v2_list_items_paged", "v2_create_item"}
    /\ resp.auth # NotReached

\* The bearer token the request presented (None: no Authorization header) and
\* the scopes its endpoint declares.
Presented == resp.req.authorization
Required == Range(resp.req.scopes)

\* A token verifies when the service issued it and it has not expired.
Verifies(tok) == tok \in tokens /\ now <= tok.payload.exp

Granted(tok) == Range(tok.payload.scopes)

StoredRows(username) == {users[i] : i \in {j \in 1..Len(users) : users[j].username = username}}

Live(username) == \E row \in StoredRows(username) : row.is_active

Inactive(username) ==
    StoredRows(username) # {} /\ \A row \in StoredRows(username) : ~row.is_active

\* The user signed up active and the store now holds the user as inactive.
Deactivated(username) ==
    /\ \E payload \in registered : payload.username = username /\ payload.is_active
    /\ Inactive(username)

-----------------------------------------------------------------------------
(* C1: get_current_user evaluates its gates in the order token, verify,    *)
(* scope, lookup, and its outcome is that of the first gate that fails: no *)
(* token 401, a token that does not verify 401, a required scope the token *)
(* lacks 403, a subject that is absent or inactive 401, else the user.     *)
(* No gate after the failing one is evaluated.                             *)
C1_GateOrder ==
    AuthorizerRan =>
      LET a == resp.auth
      IN IF Presented = None
           THEN ~a.ok /\ resp.status = 401 /\ a.gates = <<"token">>
         ELSE IF ~Verifies(Presented[1])
           THEN ~a.ok /\ resp.status = 401 /\ a.gates = <<"token", "verify">>
         ELSE IF ~(Required \subseteq Granted(Presented[1]))
           THEN ~a.ok /\ resp.status = 403 /\ a.gates = <<"token", "verify", "scope">>
         ELSE IF ~Live(Presented[1].payload.sub)
           THEN /\ ~a.ok /\ resp.status = 401
                /\ a.gates = <<"token", "verify", "scope", "lookup">>
         ELSE /\ a.ok /\ a.exc = NoException
              /\ a.gates = <<"token", "verify", "scope", "lookup">>
              /\ \E row \in StoredRows(Presented[1].payload.sub) :
                    /\ a.user[1].username = row.username
                    /\ a.user[1].scopes = row.scopes
                    /\ a.user[1].is_active

\* A call with required scopes that passed every gate.
C1_Witness ==
    /\ AuthorizerRan /\ Required # {} /\ resp.auth.ok
    /\ resp.auth.gates = <<"token", "verify", "scope", "lookup">>

(* C2: for a token that verifies, the scope gate passes when every required *)
(* scope is granted by the token, and the call fails with 403, never 401,   *)
(* when one is not, whatever the Credential Store holds for the subject.    *)
C2_ScopeMonotonic ==
    (AuthorizerRan /\ Presented # None /\ Verifies(Presented[1])) =>
      IF Required \subseteq Granted(Presented[1])
        THEN resp.status # 403 /\ resp.auth.gates[Len(resp.auth.gates)] = "lookup"
        ELSE resp.status = 403 /\ resp.auth.exc.status_code = 403

\* A 403 for a valid token of a subject the store holds as inactive.
C2_Witness ==
    /\ AuthorizerRan /\ Presented # None /\ Verifies(Presented[1])
    /\ Inactive(Presented[1].payload.sub)
    /\ ~(Required \subseteq Granted(Presented[1]))
    /\ resp.status = 403

(* C3 as claimed: once a user is deactivated in the store, every Authorizer *)
(* call with the subject's valid token fails with 401, whatever scopes the  *)
(* endpoint requires.                                                       *)
C3_Original ==
    (/\ AuthorizerRan /\ Presented # None /\ Verifies(Presented[1])
     /\ Deactivated(Presented[1].payload.sub))
      => (~resp.auth.ok /\ resp.status = 401)

(* C3 as amended: once a user is deactivated in the store, every Authorizer *)
(* call with the subject's valid token fails: with 401 when the token       *)
(* grants every required scope, and with 403 when it does not.             *)
C3_DeactivatedRejected ==
    (/\ AuthorizerRan /\ Presented # None /\ Verifies(Presented[1])
     /\ Deactivated(Presented[1].payload.sub))
      => /\ ~resp.auth.ok
         /\ resp.auth.user = None
         /\ resp.status = IF Required \subseteq Granted(Presented[1]) THEN 401 ELSE 403

\* A 401 for the valid token of an inactive subject on a scope-protected endpoint.
C3_Witness ==
    /\ AuthorizerRan /\ Presented # None /\ Verifies(Presented[1])
    /\ Deactivated(Presented[1].payload.sub)
    /\ Required # {} /\ Required \subseteq Granted(Presented[1])
    /\ resp.status = 401

(* C4: after any sequence of signups, authenticate_user returns the user's *)
(* record for every (username, password) pair a signup registered, and none *)
(* for a registered username with another password and for a username that  *)
(* was never registered; the token exchange answers 200 exactly for the     *)
(* registered pairs.                                                        *)
Registered(username, password) ==
    \E payload \in registered : payload.username = username /\ payload.password = password

C4_Authenticate ==
    /\ \A username \in Usernames, password \in Passwords :
          LET user == authenticate_user(users, username, password)
          IN IF Registered(username, password)
               THEN /\ user # None
                    /\ \E row \in StoredRows(username) : user[1] = User_to_in_db(row)
               ELSE user = None
    /\ resp.op = "login" =>
          (resp.status = 200 <=> Registered(resp.req.username, resp.req.password))

\* Two users are registered with different passwords, and a token exchange
\* with one user's name and the other's password was refused.
C4_Witness ==
    /\ resp.op = "login" /\ resp.status = 401
    /\ \E payload \in registered : payload.username = resp.req.username
    /\ \E payload \in registered :
          payload.username # resp.req.username /\ payload.password = resp.req.password

(* C5: for every subject, scope list and lifetime, jwt.decode of a token at *)
(* the time create_access_token issued it succeeds and returns the subject  *)
(* and the scopes it was issued with; once its lifetime has elapsed (now >  *)
(* exp) jwt.decode fails with the expiry error, and the Authorizer answers  *)
(* that token with 401 at the verification gate.                            *)
C5_RoundTrip ==
    /\ \A i \in issued :
          LET decoded == jwt_decode(i.token, SECRET_KEY, now)
          IN /\ now = i.at =>
                  /\ decoded.ok
                  /\ decoded.payload.sub = i.sub
                  /\ decoded.payload.scopes = i.scopes
             /\ now > i.at + i.ttl =>
                  ~decoded.ok /\ decoded.error = "ExpiredSignatureError"
    /\ \A i \in issued :
          (resp.op = "read_me" /\ Presented = Some(i.token) /\ now > i.at + i.ttl) =>
              resp.status = 401 /\ resp.auth.gates = <<"token", "verify">>

\* jwt.decode refused, as expired, a token issued with scopes and a lifetime above 0.
C5_Witness ==
    /\ resp.op = "jwt_decode" /\ resp.body.error = "ExpiredSignatureError"
    /\ \E i \in issued : i.token = resp.req /\ i.ttl > 0 /\ i.scopes # <<>>

(* C6: every token the token exchange issues carries the authenticated      *)
(* username as its subject and no scope outside the scopes the Credential   *)
(* Store grants that user, whatever scope list the login form supplies.     *)
C6_TokenScopesGranted ==
    \A i \in issued :
        /\ i.token.payload.sub = i.sub
        /\ \E row \in StoredRows(i.sub) : Range(i.token.payload.scopes) \subseteq Range(row.scopes)

(* C7: end to end: signup of a new user answers 201; the token exchange with *)
(* the registered password answers 200 with a token; GET /auth/me with that  *)
(* token answers 200 with the user's profile; the token exchange with a      *)
(* wrong password answers 401; an endpoint that requires items:write, given  *)
(* a token that grants only items:read, answers 403.                         *)
C7_EndToEnd ==
    /\ (resp.op = "signup" /\ resp.status # 201) => StoredRows(resp.req.username) # {}
    /\ (resp.op = "login" /\ Registered(resp.req.username, resp.req.password)) =>
          resp.status = 200 /\ resp.body.access_token \in tokens
    /\ (resp.op = "login" /\ ~Registered(resp.req.username, resp.req.password)) =>
          resp.status = 401
    /\ (/\ resp.op = "read_me" /\ Presented # None /\ Verifies(Presented[1])
        /\ Live(Presented[1].payload.sub)) =>
          /\ resp.status = 200
          /\ \E row \in StoredRows(Presented[1].payload.sub) :
                resp.body = User_to_read(row)
    /\ (/\ AuthorizerRan /\ WRITE \in Required /\ Presented # None
        /\ Verifies(Presented[1]) /\ Granted(Presented[1]) = {READ}) =>
          resp.status = 403

(* C8: a signup whose username is already in the Credential Store is        *)
(* answered 400 'User already exists.', never 500, and leaves the store as  *)
(* it was.                                                                  *)
C8_DuplicateConflict ==
    [][(resp'.op = "signup" /\ StoredRows(resp'.req.username) # {}) =>
          /\ resp'.status = 400
          /\ resp'.body = [detail |-> "User already exists."]
          /\ users' = users]_vars

(* C9: after any successful create or update of an item through any write   *)
(* endpoint, no cached item read is left that reflects the store as it was  *)
(* before the write: every stored response is the one its endpoint gives    *)
(* for the store as it is.                                                  *)
Recomputed(key) ==
    IF key.func = "list_items"
      THEN LET listed == SQLItemRepo_list(items, None, DefaultLimit).value
               q == key.args[1]
           IN Take(IF q # None THEN Filter(listed, q[1]) ELSE listed, key.args[2])
      ELSE LET pagination == key.args[1]
               start == (pagination.page - 1) * pagination.page_size
           IN Slice(SQLItemRepo_list(items, None, pagination.page_size).value,
                    start, start + pagination.page_size)

C9_CacheInvalidated == \A key \in DOMAIN cache : cache[key] = Recomputed(key)

(* C10: no value handed to the HTTP layer by signup, by the token exchange  *)
(* or by the Authorizer (the record get_current_user returns to endpoints)  *)
(* contains the hashed_password field.                                      *)
C10_HashNotExposed ==
    /\ resp.auth.user # None => "hashed_password" \notin DOMAIN resp.auth.user[1]
    /\ resp.op \in {"signup", "login", "read_me"} => "hashed_password" \notin DOMAIN resp.body

(* C11: a partial update writes the fields its payload sets and nothing     *)
(* else: every field of the item the payload does not set keeps its value   *)
(* (it is not nulled), every other stored item is unchanged, and the item   *)
(* as updated is returned; for an id that is not in the store the update    *)
(* returns None and changes nothing.                                        *)
C11_PartialUpdate ==
    [][resp'.op = "repo_update" =>
          LET item_id == resp'.req.item_id
              changes == resp'.req.changes
          IN IF item_id \in 1..Len(items)
               THEN /\ Len(items') = Len(items)
                    /\ \A i \in 1..Len(items) : i # item_id => items'[i] = items[i]
                    /\ \A f \in DOMAIN items[item_id] :
                          items'[item_id][f] =
                              IF f \notin DOMAIN changes THEN items[item_id][f]
                              ELSE IF f \in NotNullColumns THEN changes[f][1]
                              ELSE changes[f]
                    /\ resp'.body = Some(Item_to_read(items'[item_id]))
               ELSE items' = items /\ resp'.body = None]_vars

\* {price: 10} was applied to one of two stored items, and the item's
\* description, tags and in_stock still hold the values it was created with.
C11_Witness ==
    /\ resp.op = "repo_update" /\ resp.req.changes = [price |-> Some(10)]
    /\ Len(items) = MaxItems /\ resp.body # None
    /\ LET obj == items[resp.req.item_id]
       IN /\ obj.price = 10 /\ obj.description = Some("350ml")
          /\ obj.tags = Some(<<"kitchen">>) /\ ~obj.in_stock

(* C12: after any sequence and any interleaving of signups, signups of the  *)
(* same username in flight at the same time included, no two rows of the    *)
(* users table share a username, and no step of the system deletes a row or *)
(* changes the username or the id of a row.                                 *)
C12_UsernameUnique ==
    [][/\ \A i, j \in 1..Len(users') : users'[i].username = users'[j].username => i = j
       /\ Len(users') >= Len(users)
       /\ \A i \in 1..Len(users) :
             users'[i].username = users[i].username /\ users'[i].id = users[i].id]_vars

\* A signup was refused at the write lock while the transaction of another
\* signup of the same username was in flight, with another user already stored.
C12_Witness ==
    /\ txn # None /\ Len(users) > 0
    /\ resp.op = "signup" /\ resp.status = 500
    /\ resp.req.username = txn[1].payload.username

(* C13: every 401 response, from the Authorizer and from the token exchange *)
(* on wrong credentials, carries a WWW-Authenticate challenge header, and    *)
(* every 403 response carries the list of scopes its endpoint requires.     *)
C13_ChallengeHeaders ==
    /\ resp.status = 401 => (resp.headers # None /\ resp.headers[1][1] = "Bearer")
    /\ resp.status = 403 =>
          (resp.headers # None /\ Len(resp.headers[1]) = 2 /\ resp.headers[1][2] = resp.req.scopes)

(* C14: every error response (400, 401, 403, 404, 500) has a body of the    *)
(* shape {error: {code, message}, path}.                                    *)
C14_ErrorEnvelope ==
    resp.status >= 400 =>
        /\ DOMAIN resp.body = {"error", "path"}
        /\ DOMAIN resp.body.error = {"code", "message"}

(* C15: a request to the rate-limited, scope-protected, cached paged        *)
(* listing of v2 passes its stages in the order rate limiter, Authorizer,   *)
(* repository read, response, cache write.  A request the rate limiter      *)
(* rejects never reaches the Authorizer; a request the Authorizer rejects   *)
(* (401 or 403) never reads the repository, is never answered from the      *)
(* cache and never causes a cache write.                                    *)
StageRank(stage) ==
    CASE stage = "limiter" -> 1
      [] stage = "authorizer" -> 2
      [] stage = "cache_read" -> 3
      [] stage = "repository" -> 4
      [] stage = "response" -> 5
      [] stage = "cache_write" -> 6

LookupsMade ==
    Cardinality({i \in 1..Len(resp.auth.gates) : resp.auth.gates[i] = "lookup"})

PassesToLookup ==
    /\ Presented # None /\ Verifies(Presented[1])
    /\ Required \subseteq Granted(Presented[1])

C16_Original ==
    [][AuthorizerRan' => (users' = users /\ items' = items /\ LookupsMade' = 1)]_vars

(* C16 as amended: every Authorizer call leaves the Credential Store and    *)
(* the item store as they were and invokes get_by_username at most once:    *)
(* exactly once when the token is present, verifies and grants every        *)
(* required scope, and not at all when the call fails at an earlier gate.   *)
C16_OneLookupNoMutation ==
    [][AuthorizerRan' =>
          /\ users' = users /\ items' = items
          /\ LookupsMade' = IF PassesToLookup' THEN 1 ELSE 0]_vars

\* A call that failed at the scope gate and made no lookup, for a stored user.
C16_Witness ==
    /\ AuthorizerRan /\ resp.status = 403 /\ LookupsMade = 0
    /\ StoredRows(Presented[1].payload.sub) # {}

(* C17: the store assigns item ids and they are monotonic: every new item   *)
(* gets an id greater than every id assigned before, no two items share an  *)
(* id, and no later operation, a partial update included, changes the id or *)
(* the created_at of an item.                                               *)
C17_IdsMonotonic ==
    [][/\ Len(items') >= Len(items)
       /\ \A i \in 1..Len(items) :
             items'[i].id = items[i].id /\ items'[i].created_at = items[i].created_at
       /\ \A j \in (Len(items) + 1)..Len(items') :
             \A i \in 1..(j - 1) : items'[j].id > items'[i].id
       /\ \A i, j \in 1..Len(items') : items'[i].id = items'[j].id => i = j]_vars

\* An item created at an earlier time was updated after a later item was created.
C17_Witness ==
    /\ resp.op = "repo_update" /\ resp.body # None /\ Len(items) = MaxItems
    /\ resp.req.item_id = 1
    /\ items[1].created_at < items[Len(items)].created_at
    /\ items[Len(items)].created_at < now

(* C18: list(q, limit) returns, in ascending id order, the first `limit`    *)
(* stored items whose name contains q as a case-insensitive substring (all  *)
(* items when q is absent or empty): never more than `limit` items, no item *)
(* that does not qualify, and no qualifying item among the first `limit`    *)
(* left out.                                                                *)
C18_ListFiltered ==
    resp.op = "repo_list" =>
        LET q == resp.req.q
            qualifying == IF q = None \/ q[1] = <<>> THEN items ELSE Filter(items, q[1])
            expected == Take(qualifying, resp.req.limit)
        IN resp.body = [i \in 1..Len(expected) |-> Item_to_read(expected[i])]

C20_V2WritesAuthorized ==
    [][(/\ items' # items
        /\ resp'.op \in {"v2_create_item", "v2_create_items_bulk", "v2_update_item"}) =>
          /\ resp'.auth.gates # <<>> /\ resp'.auth.ok
          /\ WRITE \in Range(resp'.req.authorization[1].payload.scopes)]_vars

(* C21: the paged listings of v1 and v2 with page p and effective page size *)
(* s return exactly the stored items at positions (p-1)*s+1 .. p*s of the   *)
(* id-ordered list of all stored items, however many items are stored.      *)
PageOf(p, s) ==
    LET first == (p - 1) * s
        last == IF p * s < Len(items) THEN p * s ELSE Len(items)
    IN [k \in 1..(IF last > first THEN last - first ELSE 0) |-> Item_to_read(items[first + k])]

C21_PagesPartition ==
    (resp.op \in {"v1_list_items_paged", "v2_list_items_paged"} /\ resp.status = 200) =>
        resp.body = PageOf(resp.req.page,
                           get_pagination(resp.req.page, resp.req.page_size).page_size)

(* C22: the list endpoints of v1 and v2 with parameters q and limit return  *)
(* the first `limit` items, in id order, of all stored items whose name     *)
(* contains q case-insensitively, for every store content, stores of more   *)
(* than 25 items and stores whose matching items lie beyond the 25th id     *)
(* included.                                                                *)
C22_ListEquivalent ==
    (resp.op \in {"v1_list_items", "v2_list_items"} /\ resp.status = 200) =>
        LET q == resp.req.q
            qualifying == IF q = None \/ q[1] = <<>> THEN items ELSE Filter(items, q[1])
            expected == Take(qualifying, resp.req.limit)
        IN resp.body = [i \in 1..Len(expected) |-> Item_to_read(expected[i])]

(* C23: after any sequence of creates and partial updates, updates that set *)
(* a field to null included, every stored item satisfies the Item           *)
(* constraints (name of 2..50 characters, price a non-negative number, tags *)
(* a list, in_stock a boolean), and no get or list fails on a stored item.  *)
C23_StoredItemsValid ==
    /\ \A i \in 1..Len(items) :
          /\ ItemRead_validates(items[i])
          /\ items[i].in_stock \in BOOLEAN
    /\ resp.op \in {"v1_read_item", "v1_list_items"} => resp.status # 500

(* C24: a v2 create, bulk create or update request that ends in an error    *)
(* response leaves the item store exactly as it was before the request, and *)
(* every item the store gained or changed in a request is reported in that  *)
(* request's success response.                                              *)
C24_AllOrNothing ==
    [][resp'.op \in {"v2_create_item", "v2_create_items_bulk", "v2_update_item"} =>
          /\ resp'.status >= 400 => items' = items
          /\ \A i \in 1..Len(items') :
                (i > Len(items) \/ items'[i] # items[i]) =>
                    /\ resp'.status \in {200, 201}
                    /\ IF resp'.op = "v2_create_items_bulk"
                         THEN \E k \in 1..Len(resp'.body) :
                                 resp'.body[k] = Item_to_read(items'[i])
                         ELSE resp'.body = Item_to_read(items'[i])]_vars

=============================================================================
